---- MODULE Spec2Model ----
(***************************************************************************)
(* Routing engine of the campus map (src/unnamed/part_000, imported by the *)
(* page as "@/lib/pathfinding"): getShortestPath with its Dijkstra search, *)
(* the grid-based fallback createGridBasedPath, the waypoint detour        *)
(* selector findRouteThroughWaypoints and the obstruction tests.           *)
(*                                                                         *)
(* Numbers.  Coordinates are integers, so every product and sum the code   *)
(* forms is an exact double.  Math.sqrt is modelled by Sqrt, the exact     *)
(* root of a perfect square; the inputs drawn by Init are restricted       *)
(* (ExactInput) to graphs in which every distance the code takes is an     *)
(* integer, where IEEE arithmetic is exact.  The radius test               *)
(* num / sqrt(den2) < r is written num^2 < r^2 * den2, which has the same  *)
(* outcome for integers of this size (and is false for 0/0 = NaN).         *)
(***************************************************************************)
EXTENDS Integers, Sequences, FiniteSets, TLC

\* ---------------------------------------------------------------- bounds
MaxNodes == 3

MaxConn == 2

\* ------------------------------------------------------------- constants
roomRadius == 20

Infinity == 999999

\* null / undefined of an id-valued variable (falsy in `while (currentId)`)
Null == ""

\* ------------------------------------------------------------ arithmetic
Abs(n) == IF n < 0 THEN -n ELSE n

Min2(m, n) == IF m < n THEN m ELSE n

Max2(m, n) == IF m < n THEN n ELSE m

MinOf(S) == CHOOSE m \in S : \A n \in S : m <= n

\* Math.sqrt on a perfect square (no value on anything else: see ExactInput)
Sqrt(n) == CHOOSE r \in 0..n : r * r = n

\* ------------------------------------------------------------- geometry
\* a hop count for a weight: every connection counts 1
calculateDistanceHop(room1, room2) == 1

\* lines 11-13
calculateDistance(room1, room2) ==
  Sqrt((room1.x - room2.x) * (room1.x - room2.x) + (room1.y - room2.y) * (room1.y - room2.y))

calculateManhattanDistance(room1, room2) ==
  Abs(room1.x - room2.x) + Abs(room1.y - room2.y)

linePassesThroughRoom(x1, y1, x2, y2, roomX, roomY, radius) ==
  LET A == x1 - x2
      B == y1 - y2
      C == x1 * y2 - y1 * x2
      num == Abs(A * roomX + B * roomY + C)
      den2 == A * A + B * B
  IN  \* distance = num / Math.sqrt(den2); distance < radius
      den2 > 0 /\ num * num < radius * radius * den2

isPathObstructed(start, end, allRooms) ==
  \E i \in 1..Len(allRooms) :
    LET room == allRooms[i]
    IN  /\ ~(room.id = start.id \/ room.id = end.id \/ room.type = "waypoint")
        /\ linePassesThroughRoom(start.x, start.y, end.x, end.y, room.x, room.y, roomRadius)

\* ------------------------------------------------------- array helpers
\* index of the first element with this id, 0 when there is none
\* (Array.prototype.find returning undefined)
FindById(rooms, id) ==
  LET I == {i \in 1..Len(rooms) : rooms[i].id = id}
  IN  IF I = {} THEN 0 ELSE MinOf(I)

HasId(rooms, id) == \E i \in 1..Len(rooms) : rooms[i].id = id

Last(path) == path[Len(path)]

IsWaypoint(r) == r.type = "waypoint"

\* allRooms.filter(r => r.type === "waypoint")
WaypointsOf(allRooms) == SelectSeq(allRooms, IsWaypoint)

\* waypoints.find(w => |w.x - tx| < 15 && |w.y - ty| < 15): index, 0 if none
FindWaypointNear(waypoints, tx, ty) ==
  LET I == {i \in 1..Len(waypoints) :
              Abs(waypoints[i].x - tx) < 15 /\ Abs(waypoints[i].y - ty) < 15}
  IN  IF I = {} THEN 0 ELSE MinOf(I)

\* ------------------------------------------------- nearest waypoint
\* index of the nearest waypoint, 0 for null; the first of equally near ones
findNearestWaypoint(room, waypoints) ==
  IF Len(waypoints) = 0 THEN 0
  ELSE CHOOSE i \in 1..Len(waypoints) :
         \A j \in 1..Len(waypoints) :
            \/ calculateDistance(room, waypoints[i]) < calculateDistance(room, waypoints[j])
            \/ /\ calculateDistance(room, waypoints[i]) = calculateDistance(room, waypoints[j])
               /\ i <= j

\* ------------------------------------------------- detour selector
TwoLegManhattan(start, w, end) ==
  calculateManhattanDistance(start, w) + calculateManhattanDistance(w, end)

\* distanceWithWaypoint < directDistance * 1.5, on integers
WithinDetourBound(start, w, end) ==
  2 * TwoLegManhattan(start, w, end) < 3 * calculateManhattanDistance(start, end)

\* the filter of lines 248-258 letting every waypoint through
IsPotentialAlways(start, end, w) == TRUE

IsPotential(start, end, w) == WithinDetourBound(start, w, end)

\* the filter without the sort of lines 261-265
potentialWaypointsUnsorted(start, end, waypoints) ==
  SelectSeq(waypoints, LAMBDA w : IsPotential(start, end, w))

\* waypoints.filter(...) then a stable ascending sort by the two-leg sum
potentialWaypoints(start, end, waypoints) ==
  LET I == {i \in 1..Len(waypoints) : IsPotential(start, end, waypoints[i])}
      key(i) == TwoLegManhattan(start, waypoints[i], end)
      rank(i) == Cardinality({j \in I : key(j) < key(i) \/ (key(j) = key(i) /\ j < i)}) + 1
  IN  [k \in 1..Cardinality(I) |-> waypoints[CHOOSE i \in I : rank(i) = k]]

\* the corner at the other bend, (start.x, end.y)
cornerNodeOtherBend(start, end) ==
  [id |-> "corner-" \o start.id \o "-" \o end.id, name |-> "Corner",
   x |-> start.x, y |-> end.y, connections |-> <<>>, type |-> "waypoint"]

cornerNode(start, end) ==
  [id |-> "corner-" \o start.id \o "-" \o end.id, name |-> "Corner",
   x |-> end.x, y |-> start.y, connections |-> <<>>, type |-> "waypoint"]

findRouteThroughWaypoints(start, end, waypoints, allRooms) ==
  LET pot == potentialWaypoints(start, end, waypoints)
      ok == {k \in 1..Len(pot) : /\ ~isPathObstructed(start, pot[k], allRooms)
                                  /\ ~isPathObstructed(pot[k], end, allRooms)}
  IN  IF ok # {} THEN <<start, pot[MinOf(ok)], end>>
      ELSE <<start, cornerNode(start, end), end>>

\* ------------------------------------------------- grid-based fallback
virtualNode(tag, start, end, vx, vy) ==
  [id |-> "virtual-" \o tag \o "-" \o start.id \o "-" \o end.id, name |-> "Corridor",
   x |-> vx, y |-> vy, connections |-> <<>>, type |-> "waypoint"]

\* a non-waypoint room other than start and end inside the horizontal corridor
horizontalObstructed(start, end, allRooms) ==
  \E i \in 1..Len(allRooms) :
    LET room == allRooms[i]
        minX == Min2(start.x, end.x)
        maxX == Max2(start.x, end.x)
    IN  /\ ~(room.id = start.id \/ room.id = end.id \/ room.type = "waypoint")
        /\ room.x > minX /\ room.x < maxX
        /\ Abs(room.y - start.y) < 20

\* the horizontal leg that hands a blocked corridor to the detour selector
horizontalLegDetour(start, end, allRooms, path) ==
  LET waypoints == WaypointsOf(allRooms)
      hw == FindWaypointNear(waypoints, end.x, start.y)
  IN  IF Abs(end.x - start.x) > 20
      THEN IF hw = 0
           THEN IF horizontalObstructed(start, end, allRooms)
                THEN path \o Tail(findRouteThroughWaypoints(start, end, waypoints, allRooms))
                ELSE Append(path, virtualNode("h", start, end, end.x, start.y))
           ELSE Append(path, waypoints[hw])
      ELSE path

\* the horizontal leg with its virtual waypoint at the other corner,
\* (start.x, end.y)
horizontalLegOtherCorner(start, end, allRooms, path) ==
  LET waypoints == WaypointsOf(allRooms)
      hw == FindWaypointNear(waypoints, end.x, start.y)
      cw == findNearestWaypoint(start, waypoints)
  IN  IF Abs(end.x - start.x) > 20
      THEN IF hw = 0
           THEN IF horizontalObstructed(start, end, allRooms)
                THEN IF cw # 0 THEN Append(path, waypoints[cw]) ELSE path
                ELSE Append(path, virtualNode("h", start, end, start.x, end.y))
           ELSE Append(path, waypoints[hw])
      ELSE path

horizontalLeg(start, end, allRooms, path) ==
  LET waypoints == WaypointsOf(allRooms)
      hw == FindWaypointNear(waypoints, end.x, start.y)
      cw == findNearestWaypoint(start, waypoints)
  IN  IF Abs(end.x - start.x) > 20
      THEN IF hw = 0
           THEN IF horizontalObstructed(start, end, allRooms)
                THEN IF cw # 0 THEN Append(path, waypoints[cw]) ELSE path
                ELSE Append(path, virtualNode("h", start, end, end.x, start.y))
           ELSE Append(path, waypoints[hw])
      ELSE path

\* a non-waypoint room other than start and end inside the vertical corridor
verticalObstructed(start, end, allRooms, path) ==
  \E i \in 1..Len(allRooms) :
    LET room == allRooms[i]
        minY == Min2(Last(path).y, end.y)
        maxY == Max2(Last(path).y, end.y)
    IN  /\ ~(room.id = start.id \/ room.id = end.id \/ room.type = "waypoint")
        /\ room.y > minY /\ room.y < maxY
        /\ Abs(room.x - Last(path).x) < 20

\* the vertical leg that adds no virtual waypoint where the destination is
verticalLegMerged(start, end, allRooms, path) ==
  LET waypoints == WaypointsOf(allRooms)
      vw == FindWaypointNear(waypoints, Last(path).x, end.y)
      remainingPath == findRouteThroughWaypoints(Last(path), end, waypoints, allRooms)
  IN  IF Abs(end.y - Last(path).y) > 20
      THEN IF vw = 0
           THEN IF verticalObstructed(start, end, allRooms, path)
                THEN path \o Tail(remainingPath)
                ELSE IF Last(path).x = end.x
                     THEN path
                     ELSE Append(path, virtualNode("v", start, end, Last(path).x, end.y))
           ELSE Append(path, waypoints[vw])
      ELSE path

verticalLeg(start, end, allRooms, path) ==
  LET waypoints == WaypointsOf(allRooms)
      vw == FindWaypointNear(waypoints, Last(path).x, end.y)
      remainingPath == findRouteThroughWaypoints(Last(path), end, waypoints, allRooms)
  IN  IF Abs(end.y - Last(path).y) > 20
      THEN IF vw = 0
           THEN IF verticalObstructed(start, end, allRooms, path)
                THEN path \o Tail(remainingPath)
                ELSE Append(path, virtualNode("v", start, end, Last(path).x, end.y))
           ELSE Append(path, waypoints[vw])
      ELSE path

\* the test of line 238 inverted
addDestinationInverted(end, path) ==
  IF Last(path).id = end.id THEN Append(path, end) ELSE path

\* the push of line 239 without the test of line 238
addDestinationAlways(end, path) == Append(path, end)

\* lines 238-240
addDestination(end, path) ==
  IF Last(path).id # end.id THEN Append(path, end) ELSE path

\* the path seeded with nothing
gridPathStartEmpty(start) == <<>>

\* const path: Room[] = [start]
gridPathStart(start) == <<start>>

createGridBasedPath(start, end, allRooms) ==
  addDestination(end,
    verticalLeg(start, end, allRooms,
      horizontalLeg(start, end, allRooms, gridPathStart(start))))

\* ------------------------------------------------- graph search (Dijkstra)
\* const rooms = [...allRooms], then start and end pushed when absent by id.
\* The copy is a fresh array: the pushes reach `rooms` only, and the caller's
\* allRooms is what it was.  Both arrays after lines 60-64:
\* const rooms = allRooms: the pushes reach the caller's array
workingRoomsAliased(start, end, allRooms) ==
  LET r0 == allRooms
      r1 == IF ~HasId(r0, start.id) THEN Append(r0, start) ELSE r0
      r2 == IF ~HasId(r1, end.id) THEN Append(r1, end) ELSE r1
  IN  [rooms |-> r2, allRooms |-> r2]

workingRooms(start, end, allRooms) ==
  LET r0 == allRooms
      r1 == IF ~HasId(r0, start.id) THEN Append(r0, start) ELSE r0
      r2 == IF ~HasId(r1, end.id) THEN Append(r1, end) ELSE r1
  IN  [rooms |-> r2, allRooms |-> allRooms]

RoomIds(rooms) == {rooms[i].id : i \in 1..Len(rooms)}

initialDistances(rooms, start) ==
  [id \in RoomIds(rooms) |-> IF id = start.id THEN 0 ELSE Infinity]

initialPrevious(rooms) == [id \in RoomIds(rooms) |-> Null]

\* the Set of ids in insertion order (a second add of an id is a no-op)
initialUnvisited(rooms) ==
  LET keep == {i \in 1..Len(rooms) : \A j \in 1..(i - 1) : rooms[j].id # rooms[i].id}
      rank(i) == Cardinality({j \in keep : j < i}) + 1
  IN  [k \in 1..Cardinality(keep) |-> rooms[CHOOSE i \in keep : rank(i) = k].id]

InSeq(seq, v) == \E i \in 1..Len(seq) : seq[i] = v

\* the scan with the comparison of line 84 turned round
minUnvisitedFarthest(unvisited, distances) ==
  LET C == {i \in 1..Len(unvisited) : distances[unvisited[i]] < Infinity}
  IN  IF C = {} THEN Null
      ELSE unvisited[CHOOSE i \in C : \A j \in C :
                       \/ distances[unvisited[i]] > distances[unvisited[j]]
                       \/ (distances[unvisited[i]] = distances[unvisited[j]] /\ i <= j)]

\* the scan of lines 80-88: the first id, in iteration order, of minimal
\* distance below Infinity; Null when there is none
minUnvisited(unvisited, distances) ==
  LET C == {i \in 1..Len(unvisited) : distances[unvisited[i]] < Infinity}
  IN  IF C = {} THEN Null
      ELSE unvisited[CHOOSE i \in C : \A j \in C :
                       \/ distances[unvisited[i]] < distances[unvisited[j]]
                       \/ (distances[unvisited[i]] = distances[unvisited[j]] /\ i <= j)]

\* one neighborId of currentRoom.connections.forEach (lines 98-110)
relaxOne(f, currentId, currentRoom, neighborId) ==
  LET n == FindById(f.rooms, neighborId)
      distance == f.distances[currentId] + calculateDistance(currentRoom, f.rooms[n])
  IN  IF ~InSeq(f.unvisited, neighborId) THEN f
      ELSE IF n = 0 THEN f
      ELSE IF distance < f.distances[neighborId]
           THEN [f EXCEPT !.distances[neighborId] = distance,
                          !.previous[neighborId] = currentId]
           ELSE f

\* the forEach of line 97 left at the first connection that resolves to no room
RECURSIVE relaxFromUntilDangling(_, _, _, _)
relaxFromUntilDangling(f, currentId, currentRoom, k) ==
  IF k > Len(currentRoom.connections) THEN f
  ELSE IF FindById(f.rooms, currentRoom.connections[k]) = 0 THEN f
  ELSE CHOOSE r \in {relaxFromUntilDangling(h, currentId, currentRoom, k + 1) :
                       h \in {relaxOne(f, currentId, currentRoom, currentRoom.connections[k])}} :
         TRUE

\* currentRoom.connections.forEach of lines 97-110, from its k-th element
RECURSIVE relaxFrom(_, _, _, _)
relaxFrom(f, currentId, currentRoom, k) ==
  IF k > Len(currentRoom.connections) THEN f
  ELSE CHOOSE r \in {relaxFrom(h, currentId, currentRoom, k + 1) :
                       h \in {relaxOne(f, currentId, currentRoom, currentRoom.connections[k])}} :
         TRUE

\* relaxation across a connection from either of its ends: the rooms that
\* list currentId are relaxed as well
visitUndirected(f, currentId) ==
  LET g == [f EXCEPT !.unvisited = SelectSeq(f.unvisited, LAMBDA id : id # currentId)]
      c == FindById(g.rooms, currentId)
      h == relaxFrom(g, currentId, g.rooms[c], 1)
      listing == {i \in 1..Len(g.rooms) : InSeq(g.rooms[i].connections, currentId)}
      better(i) == /\ i \in listing
                   /\ InSeq(h.unvisited, g.rooms[i].id)
                   /\ h.distances[currentId] + calculateDistance(g.rooms[c], g.rooms[i])
                        < h.distances[g.rooms[i].id]
  IN  [h EXCEPT
         !.distances = [id \in DOMAIN h.distances |->
                          IF better(FindById(g.rooms, id))
                          THEN h.distances[currentId]
                                 + calculateDistance(g.rooms[c], g.rooms[FindById(g.rooms, id)])
                          ELSE h.distances[id]],
         !.previous = [id \in DOMAIN h.previous |->
                          IF better(FindById(g.rooms, id)) THEN currentId ELSE h.previous[id]]]

\* the visit without unvisited.delete(currentId) of line 93
visitWithoutDelete(f, currentId) ==
  CHOOSE r \in {relaxFrom(g, currentId, g.rooms[FindById(g.rooms, currentId)], 1) :
                  g \in {f}} : TRUE

\* lines 93-110 for the selected currentId
visit(f, currentId) ==
  CHOOSE r \in {relaxFrom(g, currentId, g.rooms[FindById(g.rooms, currentId)], 1) :
                  g \in {[f EXCEPT !.unvisited =
                                      SelectSeq(f.unvisited, LAMBDA id : id # currentId)]}} :
         TRUE

\* condition of line 91 (with the loop condition of line 78)
searchStops(f, end) ==
  \/ Len(f.unvisited) = 0
  \/ minUnvisited(f.unvisited, f.distances) = Null
  \/ minUnvisited(f.unvisited, f.distances) = end.id

\* the check of line 126 without its second half
pathReachesStartLax(path, start) == ~(Len(path) = 0)

\* the path is accepted when it starts with the start room (line 126)
pathReachesStart(path, start) == ~(Len(path) = 0 \/ path[1].id # start.id)

\* the condition of line 55 with `and` for `or`
searchSkippedBothEmpty(start, end) ==
  Len(start.connections) = 0 /\ Len(end.connections) = 0

\* line 55: start.connections.length === 0 || end.connections.length === 0
searchSkipped(start, end) ==
  Len(start.connections) = 0 \/ Len(end.connections) = 0

\* the while loop of lines 78-111 run to its end
RECURSIVE searchLoop(_, _)
searchLoop(f, end) ==
  IF searchStops(f, end) THEN f
  ELSE searchLoop(visit(f, minUnvisited(f.unvisited, f.distances)), end)

\* the walk of lines 114-123 from currentId
RECURSIVE reconstruct(_)
reconstruct(f) ==
  IF f.currentId = Null \/ FindById(f.rooms, f.currentId) = 0 THEN f
  ELSE reconstruct([f EXCEPT
                      !.path = <<f.rooms[FindById(f.rooms, f.currentId)]>> \o f.path,
                      !.currentId = f.previous[f.currentId]])

\* the whole call, as the page makes it
getShortestPath(start, end, allRooms) ==
  IF searchSkipped(start, end)
  THEN createGridBasedPath(start, end, allRooms)
  ELSE LET rooms == workingRooms(start, end, allRooms).rooms
           f0 == [rooms |-> rooms,
                  distances |-> initialDistances(rooms, start),
                  previous |-> initialPrevious(rooms),
                  unvisited |-> initialUnvisited(rooms),
                  currentId |-> Null,
                  path |-> <<>>]
           f1 == searchLoop(f0, end)
           f2 == reconstruct([f1 EXCEPT !.currentId = end.id, !.path = <<>>])
       IN  IF pathReachesStart(f2.path, start) THEN f2.path
           ELSE createGridBasedPath(start, end, allRooms)

\* ------------------------------------------------- audit of a path
pathCrossesRoom(path, rooms) ==
  \E i \in 1..(Len(path) - 1) : \E k \in 1..Len(rooms) :
    LET p1 == path[i]
        p2 == path[i + 1]
        room == rooms[k]
    IN  /\ ~(room.type = "waypoint" \/ HasId(path, room.id))
        /\ linePassesThroughRoom(p1.x, p1.y, p2.x, p2.y, room.x, room.y, roomRadius)

\* ================================================================ state
VARIABLES
  allNodes,    \* the caller's array of rooms (allRooms)
  startNode,   \* argument start
  endNode,     \* argument end
  pc,          \* position in getShortestPath
  frame,       \* locals of getShortestPath: rooms, distances, previous, unvisited, currentId, path
  result,      \* the returned path
  crosses,     \* result of pathCrossesRoom(result, allNodes)
  page         \* state of the Index page: selectedStart, selectedDestination, path,
               \* and the steps NavigationInfo renders from them

vars == <<allNodes, startNode, endNode, pc, frame, result, crosses, page>>

\* null of `Room | null`
NoRoom ==
  [id |-> Null, name |-> "", x |-> 0, y |-> 0, connections |-> <<>>, type |-> "null"]

\* useState(null), useState(null), useState([]) and the first render
initialPage ==
  [selectedStart |-> NoRoom, selectedDestination |-> NoRoom, path |-> <<>>, steps |-> <<>>]

emptyFrame ==
  [rooms |-> <<>>, distances |-> [id \in {} |-> 0], previous |-> [id \in {} |-> Null],
   unvisited |-> <<>>, currentId |-> Null, path |-> <<>>]

\* ----------------------------------------------------------- input domain
\* a fixed site plan: ids with positions.  An id is any string that is
\* unique in the plan; the fifth site carries one of the form the fallback
\* gives to the nodes it creates (line 177).
Site ==
  << [id |-> "a", x |-> 40, y |-> 60],
     [id |-> "b", x |-> 0,  y |-> 60],
     [id |-> "c", x |-> 0,  y |-> 18],
     [id |-> "d", x |-> 12, y |-> 18],
     [id |-> "virtual-h-a-c", x |-> 12, y |-> 30],
     [id |-> "f", x |-> 80, y |-> 60] >>

SiteIdx == 1..Len(Site)

\* the sites among which the connected graphs are drawn
SearchSites == {1, 2, 3, 6}

Types == {"room", "waypoint"}

defaultType(i) == IF i = 2 THEN "waypoint" ELSE "room"

ExactPair(p, q) ==
  LET dx == Abs(p.x - q.x)
      dy == Abs(p.y - q.y)
  IN  \E r \in Max2(dx, dy)..(dx + dy) : r * r = dx * dx + dy * dy

NbrsOf == [i \in SiteIdx |-> {j \in SiteIdx \ {i} : ExactPair(Site[i], Site[j])}]

\* a set of site indices as a sequence, ascending or descending
RECURSIVE Ordered(_, _)
Ordered(S, asc) ==
  IF S = {} THEN <<>>
  ELSE LET m == IF asc THEN MinOf(S) ELSE CHOOSE v \in S : \A w \in S : w <= v
       IN  <<m>> \o Ordered(S \ {m}, asc)

mkRoom(i, type, conn) ==
  [id |-> Site[i].id, name |-> IF type = "waypoint" THEN "" ELSE "Room " \o Site[i].id,
   x |-> Site[i].x, y |-> Site[i].y,
   connections |-> [k \in 1..Len(conn) |-> Site[conn[k]].id], type |-> type]

\* the connection lists of site i: up to MaxConn of the sites at an integer
\* distance from it (a listed site that is not in the graph is a dangling id)
ConnChoicesOf ==
  [i \in SiteIdx |->
     {Ordered(C, TRUE) : C \in {D \in SUBSET NbrsOf[i] : Cardinality(D) <= MaxConn}}]

\* every distance the code may take on this input is an integer
ExactInput(allRooms, start, end) ==
  LET rooms == workingRooms(start, end, allRooms).rooms
  IN  /\ \A i \in 1..Len(rooms) : \A k \in 1..Len(rooms[i].connections) :
           LET n == FindById(rooms, rooms[i].connections[k])
           IN  n # 0 => ExactPair(rooms[i], rooms[n])
      /\ \A i \in 1..Len(allRooms) :
           allRooms[i].type = "waypoint" => ExactPair(start, allRooms[i])

\* the argument for site i: the room of allRooms with that id, else `fresh`
Endpoint(allRooms, i, fresh) ==
  IF HasId(allRooms, Site[i].id) THEN allRooms[FindById(allRooms, Site[i].id)] ELSE fresh

\* the arrays of rooms without connections at the sites order[1..k], any types
RECURSIVE GridRooms(_, _)
GridRooms(order, k) ==
  IF k = 0 THEN {<<>>}
  ELSE {Append(rs, mkRoom(order[k], t, <<>>)) : rs \in GridRooms(order, k - 1), t \in Types}

\* the arrays of rooms at the sites order[1..k], any connection lists
RECURSIVE GraphRooms(_, _)
GraphRooms(order, k) ==
  IF k = 0 THEN {<<>>}
  ELSE {Append(rs, mkRoom(order[k], defaultType(order[k]), c)) :
          rs \in GraphRooms(order, k - 1), c \in ConnChoicesOf[order[k]]}

SitePlans(S, orders) ==
  {Ordered(P, asc) : P \in {Q \in SUBSET S : Cardinality(Q) <= MaxNodes}, asc \in orders}

\* graphs without connections, any types, over all sites; an endpoint absent
\* from allNodes is a room without connections
InitGrid ==
  \E order \in SitePlans(SiteIdx, BOOLEAN) : \E rooms \in GridRooms(order, Len(order)) :
  \E si \in SiteIdx : \E ei \in SiteIdx :
    /\ allNodes = rooms
    /\ startNode = Endpoint(rooms, si, mkRoom(si, defaultType(si), <<>>))
    /\ endNode = Endpoint(rooms, ei, mkRoom(ei, defaultType(ei), <<>>))
    /\ ExactInput(allNodes, startNode, endNode)

\* the connection list of an endpoint that is not in allNodes
absentConn(i) == Ordered(NbrsOf[i] \cap SearchSites, TRUE)

\* connected graphs over SearchSites (every connection is between sites at an
\* integer distance, and the one waypoint, b, is at an integer distance from
\* every site of SearchSites: ExactInput holds)
InitGraph ==
  \E order \in SitePlans(SearchSites, {TRUE}) : \E rooms \in GraphRooms(order, Len(order)) :
  \E si \in SearchSites : \E ei \in SearchSites :
    /\ allNodes = rooms
    /\ startNode = Endpoint(rooms, si, mkRoom(si, defaultType(si), absentConn(si)))
    /\ endNode = Endpoint(rooms, ei, mkRoom(ei, defaultType(ei), absentConn(ei)))

\* the neighbours of site i among the sites of order, at most MaxConn of them
pageConn(order, i) ==
  LET c == Ordered(NbrsOf[i] \cap {order[k] : k \in 1..Len(order)}, TRUE)
  IN  SubSeq(c, 1, Min2(MaxConn, Len(c)))

\* the arrays of rooms at the sites order[1..k], each room listing its
\* neighbours or nothing
RECURSIVE PageGraphRooms(_, _)
PageGraphRooms(order, k) ==
  IF k = 0 THEN {<<>>}
  ELSE {Append(rs, mkRoom(order[k], defaultType(order[k]), c)) :
          rs \in PageGraphRooms(order, k - 1), c \in {<<>>, pageConn(order, order[k])}}

InitCall ==
  /\ pc = "call"
  /\ frame = emptyFrame
  /\ result = <<>>
  /\ crosses = FALSE
  /\ page = initialPage

Init ==
  /\ InitGrid \/ InitGraph
  /\ InitCall

\* -------------------------------------------------------------- actions
\* lines 55-57: an endpoint without connections, no search
SkipSearch ==
  /\ pc = "call"
  /\ searchSkipped(startNode, endNode)
  /\ pc' = "grid"
  /\ UNCHANGED <<page, allNodes, startNode, endNode, frame, result, crosses>>

\* lines 59-76
BeginSearch ==
  /\ pc = "call"
  /\ ~searchSkipped(startNode, endNode)
  /\ LET w == workingRooms(startNode, endNode, allNodes)
     IN  /\ allNodes' = w.allRooms
         /\ frame' = [rooms |-> w.rooms,
                      distances |-> initialDistances(w.rooms, startNode),
                      previous |-> initialPrevious(w.rooms),
                      unvisited |-> initialUnvisited(w.rooms),
                      currentId |-> Null,
                      path |-> <<>>]
  /\ pc' = "loop"
  /\ UNCHANGED <<page, startNode, endNode, result, crosses>>

\* lines 78-111, one iteration that does not break.  rooms.find(...)! of line
\* 95 is undefined when no room has the id, and line 98 then reads
\* `connections` of undefined: a TypeError leaves the function.
SearchVisit ==
  /\ pc = "loop"
  /\ ~searchStops(frame, endNode)
  /\ \E currentId \in {minUnvisited(frame.unvisited, frame.distances)} :
       IF FindById(frame.rooms, currentId) = 0
       THEN /\ frame' = [frame EXCEPT !.unvisited = SelectSeq(frame.unvisited, LAMBDA id : id # currentId)]
            /\ pc' = "threw"
       ELSE /\ frame' = visit(frame, currentId)
            /\ pc' = "loop"
  /\ UNCHANGED <<page, allNodes, startNode, endNode, result, crosses>>

\* line 78 false or the break of line 91; lines 114-115
SearchBreak ==
  /\ pc = "loop"
  /\ searchStops(frame, endNode)
  /\ frame' = [frame EXCEPT !.currentId = endNode.id, !.path = <<>>]
  /\ pc' = "reconstruct"
  /\ UNCHANGED <<page, allNodes, startNode, endNode, result, crosses>>

\* lines 117-123, one iteration
ReconstructStep ==
  /\ pc = "reconstruct"
  /\ frame.currentId # Null
  /\ FindById(frame.rooms, frame.currentId) # 0
  /\ frame' = [frame EXCEPT
                 !.path = <<frame.rooms[FindById(frame.rooms, frame.currentId)]>> \o frame.path,
                 !.currentId = frame.previous[frame.currentId]]
  /\ UNCHANGED <<page, allNodes, startNode, endNode, pc, result, crosses>>

reconstructEnds == frame.currentId = Null \/ FindById(frame.rooms, frame.currentId) = 0

\* lines 126-131 with a path that starts with start
ReturnSearchPath ==
  /\ pc = "reconstruct"
  /\ reconstructEnds
  /\ pathReachesStart(frame.path, startNode)
  /\ result' = frame.path
  /\ pc' = "returned"
  /\ UNCHANGED <<page, allNodes, startNode, endNode, frame, crosses>>

\* lines 126-129 otherwise
FallBackAfterSearch ==
  /\ pc = "reconstruct"
  /\ reconstructEnds
  /\ ~pathReachesStart(frame.path, startNode)
  /\ pc' = "grid"
  /\ UNCHANGED <<page, allNodes, startNode, endNode, frame, result, crosses>>

\* lines 135-243.  path[path.length - 1] of lines 192 and 238 is undefined on
\* an empty path, and reading `y` or `id` of it is a TypeError.
GridPath ==
  /\ pc = "grid"
  /\ IF Len(horizontalLeg(startNode, endNode, allNodes, gridPathStart(startNode))) = 0
     THEN /\ pc' = "threw"
          /\ result' = result
     ELSE /\ pc' = "returned"
          /\ result' = createGridBasedPath(startNode, endNode, allNodes)
  /\ UNCHANGED <<page, allNodes, startNode, endNode, frame, crosses>>

\* lines 380-399, on the returned path
AuditPath ==
  /\ pc = "returned"
  /\ crosses' = pathCrossesRoom(result, allNodes)
  /\ pc' = "audited"
  /\ UNCHANGED <<page, allNodes, startNode, endNode, frame, result>>

Next ==
  \/ SkipSearch
  \/ BeginSearch
  \/ SearchVisit
  \/ SearchBreak
  \/ ReconstructStep
  \/ ReturnSearchPath
  \/ FallBackAfterSearch
  \/ GridPath
  \/ AuditPath

Spec == Init /\ [][Next]_vars

\* the calls on graphs whose rooms list all their neighbours or none
LiveInit ==
  /\ \E order \in SitePlans(SearchSites, {TRUE}) :
       \E rooms \in PageGraphRooms(order, Len(order)) :
       \E si \in SearchSites : \E ei \in SearchSites :
         /\ allNodes = rooms
         /\ startNode = Endpoint(rooms, si, mkRoom(si, defaultType(si), absentConn(si)))
         /\ endNode = Endpoint(rooms, ei, mkRoom(ei, defaultType(ei), absentConn(ei)))
  /\ InitCall

\* the call is synchronous and nothing else runs: a step that can be taken
\* is taken
LiveSpec == LiveInit /\ [][Next]_vars /\ WF_vars(Next)

\* ------------------------------------------------- the helpers on their own
\* isPathObstructed(start, end, allRooms) on the drawn rooms (lines 39-50)
CallIsPathObstructed ==
  /\ pc = "call"
  /\ crosses' = isPathObstructed(startNode, endNode, allNodes)
  /\ pc' = "obstructed"
  /\ UNCHANGED <<page, allNodes, startNode, endNode, frame, result>>

\* findRouteThroughWaypoints(start, end, waypoints, allRooms) with the
\* waypoints of allRooms, as line 218 calls it (lines 246-288)
CallFindRouteThroughWaypoints ==
  /\ pc = "call"
  /\ result' = findRouteThroughWaypoints(startNode, endNode, WaypointsOf(allNodes), allNodes)
  /\ pc' = "detour"
  /\ UNCHANGED <<page, allNodes, startNode, endNode, frame, crosses>>

HelperInit == InitGrid /\ InitCall

HelperNext == CallIsPathObstructed \/ CallFindRouteThroughWaypoints

HelperSpec == HelperInit /\ [][HelperNext]_vars

\* ------------------------------------------------- turn-by-turn narration
\* name.trim() on the names that occur: only the blank name has outer blanks
trim(name) == IF name = " " THEN "" ELSE name

\* current.name && current.name.trim() !== ""
isNamedLocation(current) == current.name # "" /\ trim(current.name) # ""

getRoomDisplayName(room) ==
  IF room.name = "" \/ trim(room.name) = ""
  THEN IF room.type = "waypoint" THEN "Corridor" ELSE "Junction"
  ELSE room.name

\* the text of getDirectionInfo: the angle of atan2(dy, dx) in degrees lies in
\* (-45, 45], (45, 135], (135, 180] or [-180, -135], or elsewhere
getDirectionInfo(prev, current) ==
  LET dx == current.x - prev.x
      dy == current.y - prev.y
  IN  IF (dx = 0 /\ dy = 0) \/ (dy > -dx /\ dy <= dx) THEN "right"
      ELSE IF dy > 0 /\ dy > dx /\ dy >= -dx THEN "down"
      ELSE IF dx < 0 /\ dy >= dx /\ dy < -dx THEN "left"
      ELSE "up"

\* one movement instruction of the loop over i (0-based i, so path[i + 1] here)
pathStep(path, i) ==
  LET prev == path[i]
      current == path[i + 1]
      isDestination == (i + 1 = Len(path))
  IN  IF isNamedLocation(current) \/ isDestination
      THEN [kind |-> "Go to", text |-> getRoomDisplayName(current)]
      ELSE [kind |-> "Continue", text |-> getDirectionInfo(prev, current)]

\* the list items of renderPathInstructions: the start item, one item per
\* path element after the first, the arrival item; none when the
\* placeholder paragraph is shown
renderPathInstructions(start, destination, path) ==
  IF start = NoRoom \/ destination = NoRoom \/ Len(path) < 2 THEN <<>>
  ELSE [k \in 1..(Len(path) + 1) |->
          IF k = 1 THEN [kind |-> "From", text |-> getRoomDisplayName(start)]
          ELSE IF k = Len(path) + 1 THEN [kind |-> "arrival", text |-> ""]
          ELSE pathStep(path, k - 1)]

\* ------------------------------------------------- the Index page
\* the render that follows the state updates of a handler
rendered(q) ==
  [q EXCEPT !.steps = renderPathInstructions(q.selectedStart, q.selectedDestination, q.path)]

\* Index.handleStartSelect called in a handler whose closure holds the state
\* p of the last render, with the updates q queued so far
handleStartSelect(p, q, room, allRooms) ==
  IF p.selectedDestination # NoRoom
  THEN [q EXCEPT !.selectedStart = room,
                 !.path = getShortestPath(room, p.selectedDestination, allRooms)]
  ELSE [q EXCEPT !.selectedStart = room]

\* the handler without its call of getShortestPath
handleDestinationSelectOnly(p, q, room, allRooms) ==
  [q EXCEPT !.selectedDestination = room]

handleDestinationSelect(p, q, room, allRooms) ==
  IF p.selectedStart # NoRoom
  THEN [q EXCEPT !.selectedDestination = room,
                 !.path = getShortestPath(p.selectedStart, room, allRooms)]
  ELSE [q EXCEPT !.selectedDestination = room]

handleRoomClick(p, room, allRooms) ==
  IF p.selectedStart = NoRoom THEN handleStartSelect(p, p, room, allRooms)
  ELSE IF p.selectedDestination = NoRoom THEN handleDestinationSelect(p, p, room, allRooms)
  ELSE handleStartSelect(p, [p EXCEPT !.selectedDestination = NoRoom, !.path = <<>>],
                         room, allRooms)

clearNavigation(p) ==
  [p EXCEPT !.selectedStart = NoRoom, !.selectedDestination = NoRoom, !.path = <<>>]

\* the rooms prop of SearchBar: allRooms.filter(r => r.type !== "waypoint" &&
\* r.name && r.name.trim() !== "")
searchBarRooms(allRooms) ==
  SelectSeq(allRooms, LAMBDA r : r.type # "waypoint" /\ r.name # "" /\ trim(r.name) # "")

\* a choice in the start dropdown: SearchBar.handleStartSelect finds the room
\* of the chosen id among its rooms and hands it to onSelectStart
SelectStart ==
  /\ pc = "page"
  /\ \E i \in 1..Len(searchBarRooms(allNodes)) :
       LET rooms == searchBarRooms(allNodes)
           room == rooms[FindById(rooms, rooms[i].id)]
       IN  page' = rendered(handleStartSelect(page, page, room, allNodes))
  /\ UNCHANGED <<allNodes, startNode, endNode, pc, frame, result, crosses>>

SelectDestination ==
  /\ pc = "page"
  /\ \E i \in 1..Len(searchBarRooms(allNodes)) :
       LET rooms == searchBarRooms(allNodes)
           room == rooms[FindById(rooms, rooms[i].id)]
       IN  page' = rendered(handleDestinationSelect(page, page, room, allNodes))
  /\ UNCHANGED <<allNodes, startNode, endNode, pc, frame, result, crosses>>

\* the room a click at (x, y) of the map lands on (CollegeMap.tsx lines
\* 461-464): the first room of the list, not a waypoint, at a distance under
\* 15 of the point; 0 when there is none
clickedRoom(rooms, x, y) ==
  LET hit(i) == /\ (rooms[i].x - x) * (rooms[i].x - x) + (rooms[i].y - y) * (rooms[i].y - y) < 15 * 15
                /\ rooms[i].type # "waypoint"
  IN  IF \E i \in 1..Len(rooms) : hit(i)
      THEN CHOOSE i \in 1..Len(rooms) : hit(i) /\ \A j \in 1..(i - 1) : ~hit(j)
      ELSE 0

\* a click on the map, which shows allRooms, at the position of one of its
\* nodes; onRoomClick is called only when a room is found there
ClickRoom ==
  /\ pc = "page"
  /\ \E i \in 1..Len(allNodes) :
       \E c \in {clickedRoom(allNodes, allNodes[i].x, allNodes[i].y)} :
         /\ c # 0
         /\ page' = rendered(handleRoomClick(page, allNodes[c], allNodes))
  /\ UNCHANGED <<allNodes, startNode, endNode, pc, frame, result, crosses>>

ClearNavigation ==
  /\ pc = "page"
  /\ page' = rendered(clearNavigation(page))
  /\ UNCHANGED <<allNodes, startNode, endNode, pc, frame, result, crosses>>

\* every distance a call from the page may take on these rooms is an integer
ExactRooms(rooms) ==
  \A i \in 1..Len(rooms) : \A j \in 1..Len(rooms) : ExactInput(rooms, rooms[i], rooms[j])

\* the page after its first render, on the rooms of the data module
PageInit ==
  /\ \/ \E order \in SitePlans(SiteIdx, {TRUE}) : \E rooms \in GridRooms(order, Len(order)) :
          ExactRooms(rooms) /\ allNodes = rooms
     \/ \E order \in SitePlans(SearchSites, {TRUE}) :
          \E rooms \in PageGraphRooms(order, Len(order)) : allNodes = rooms
  /\ startNode = NoRoom
  /\ endNode = NoRoom
  /\ pc = "page"
  /\ frame = emptyFrame
  /\ result = <<>>
  /\ crosses = FALSE
  /\ page = initialPage

PageNext == SelectStart \/ SelectDestination \/ ClickRoom \/ ClearNavigation

PageSpec == PageInit /\ [][PageNext]_vars

\* ================================================================ claims
Returned == pc \in {"returned", "audited"}

\* the search ran (lines 59-123) and its reconstructed path is in frame.path
SearchRan == Len(frame.rooms) > 0

\* C1: getShortestPath returns a path with at least one element and never
\* raises an error, whichever branch is taken.
C1_Totality ==
  /\ pc # "threw"
  /\ Returned => Len(result) >= 1

\* a search that did not reach start, answered by the fallback
C1_Witness ==
  /\ pc = "returned"
  /\ SearchRan
  /\ ~pathReachesStart(frame.path, startNode)
  /\ Len(result) >= 3

\* C2: the returned path begins with a room of id start.id and ends with a
\* room of id end.id, after the search and after any fallback.
C2_Endpoints ==
  Returned => result[1].id = startNode.id /\ Last(result).id = endNode.id

\* a path through the corner of the detour selector
C2_Witness ==
  /\ pc = "returned"
  /\ \E i \in 2..(Len(result) - 1) : result[i].name = "Corner"

\* ---- reference definitions for the search
RECURSIVE PathLength(_)
PathLength(path) ==
  IF Len(path) <= 1 THEN 0
  ELSE calculateDistance(path[1], path[2]) + PathLength(Tail(path))

Lists(rooms, u, v) == InSeq(rooms[u].connections, rooms[v].id)

\* length of the shortest chain of listed connections from rooms[u] to the
\* room of id target that avoids `seen`, by enumeration of all simple chains
RECURSIVE shortestFrom(_, _, _, _)
shortestFrom(rooms, u, target, seen) ==
  IF rooms[u].id = target THEN 0
  ELSE MinOf({Infinity} \cup
         {calculateDistance(rooms[u], rooms[v]) + shortestFrom(rooms, v, target, seen \cup {v}) :
            v \in {w \in (1..Len(rooms)) \ seen : Lists(rooms, u, w)}})

TrueShortest ==
  shortestFrom(frame.rooms, FindById(frame.rooms, startNode.id), endNode.id,
               {FindById(frame.rooms, startNode.id)})

Visited(id) == HasId(frame.rooms, id) /\ ~InSeq(frame.unvisited, id)

\* C3: when the search runs and a chain of connections leads from start to
\* end, the search returns its own path, whose Euclidean length is the
\* shortest over all chains; two rooms that list only each other give
\* exactly [start, end].
C3_ShortestPath ==
  /\ (Returned /\ SearchRan /\ TrueShortest < Infinity) =>
        /\ result = frame.path
        /\ result[1].id = startNode.id
        /\ PathLength(result) = TrueShortest
  /\ (Returned /\ SearchRan /\ startNode.id # endNode.id
        /\ startNode.connections = <<endNode.id>> /\ endNode.connections = <<startNode.id>>) =>
        result = <<startNode, endNode>>

\* a returned two-hop path where another room offers a second chain
C3_Witness ==
  /\ pc = "returned"
  /\ SearchRan
  /\ result = frame.path
  /\ Len(result) = 3
  /\ \E v \in 1..Len(frame.rooms) :
        /\ frame.rooms[v].id # result[2].id
        /\ InSeq(startNode.connections, frame.rooms[v].id)
        /\ InSeq(frame.rooms[v].connections, endNode.id)

\* C4 as stated: an edge is traversable from either end, so once a room u is
\* visited every unvisited room v that lists u has been relaxed across it.
C4_Undirected ==
  (pc \in {"loop", "reconstruct"}) =>
    \A u \in 1..Len(frame.rooms) : \A v \in 1..Len(frame.rooms) :
      (Visited(frame.rooms[u].id) /\ ~Visited(frame.rooms[v].id) /\ Lists(frame.rooms, v, u)) =>
        frame.distances[frame.rooms[v].id]
          <= frame.distances[frame.rooms[u].id] + calculateDistance(frame.rooms[u], frame.rooms[v])

\* C4 amended: connections are directed.  A room other than start has a
\* distance exactly when a visited room lists it, and the recorded previous
\* room of a room lists it.
C4_Directed ==
  SearchRan =>
    \A v \in 1..Len(frame.rooms) :
      /\ frame.rooms[v].id # startNode.id =>
           (frame.distances[frame.rooms[v].id] < Infinity
              <=> \E u \in 1..Len(frame.rooms) :
                     Visited(frame.rooms[u].id) /\ Lists(frame.rooms, u, v))
      /\ frame.previous[frame.rooms[v].id] # Null =>
           Lists(frame.rooms, FindById(frame.rooms, frame.previous[frame.rooms[v].id]), v)

\* the search is over, start was visited, and a room that lists start and
\* is not listed by it was left without a distance
C4_Witness ==
  /\ pc = "reconstruct"
  /\ \E v \in 1..Len(frame.rooms) :
        /\ InSeq(frame.rooms[v].connections, startNode.id)
        /\ ~InSeq(startNode.connections, frame.rooms[v].id)
        /\ Visited(startNode.id)
        /\ frame.distances[frame.rooms[v].id] = Infinity

\* C5: when the walk back from end does not reach start, the partial chain
\* is not returned: the result is createGridBasedPath(start, end, allRooms),
\* and nothing is thrown.
C5_NoPartialPath ==
  /\ (Returned /\ SearchRan /\ (Len(frame.path) = 0 \/ frame.path[1].id # startNode.id)) =>
        /\ result = createGridBasedPath(startNode, endNode, allNodes)
        /\ result # frame.path
  /\ (pc = "grid" /\ SearchRan) => (Len(frame.path) = 0 \/ frame.path[1].id # startNode.id)
  /\ pc # "threw"

\* a chain that stops short of start, and the fallback path returned instead
C5_Witness ==
  /\ pc = "returned"
  /\ SearchRan
  /\ Len(frame.path) >= 1
  /\ frame.path[1].id # startNode.id
  /\ Len(result) >= 2

\* C6: no step of getShortestPath or pathCrossesRoom changes the caller's
\* array of rooms: its length, its order and every field of every room.
C6_InputNotMutated == [][allNodes' = allNodes]_vars

\* the working copy received start or end, and the audit has run
C6_Witness ==
  /\ pc = "audited"
  /\ Len(frame.rooms) > Len(allNodes)

\* ---- reference definitions for the fallback
Blocker(r) == ~(r.id = startNode.id \/ r.id = endNode.id \/ r.type = "waypoint")

\* no room other than start, end and the waypoints strictly between x1 and
\* x2 and less than 20 away from the height y
ClearHorizontal(x1, x2, y) ==
  \A i \in 1..Len(allNodes) :
    ~(/\ Blocker(allNodes[i])
      /\ allNodes[i].x > Min2(x1, x2) /\ allNodes[i].x < Max2(x1, x2)
      /\ Abs(allNodes[i].y - y) < 20)

ClearVertical(y1, y2, x) ==
  \A i \in 1..Len(allNodes) :
    ~(/\ Blocker(allNodes[i])
      /\ allNodes[i].y > Min2(y1, y2) /\ allNodes[i].y < Max2(y1, y2)
      /\ Abs(allNodes[i].x - x) < 20)

ExistingWaypointNear(w, tx, ty) ==
  /\ \E i \in 1..Len(allNodes) : allNodes[i] = w
  /\ w.type = "waypoint"
  /\ Abs(w.x - tx) < 15 /\ Abs(w.y - ty) < 15

BothDeltasLarge ==
  /\ Abs(endNode.x - startNode.x) > 20
  /\ Abs(endNode.y - startNode.y) > 20

\* start without connections, both deltas above 20, a returned path, and
\* neither leg of it obstructed
C7_Case ==
  /\ Returned
  /\ startNode.connections = <<>>
  /\ BothDeltasLarge
  /\ ClearHorizontal(startNode.x, endNode.x, startNode.y)
  /\ Len(result) >= 2
  /\ ClearVertical(result[2].y, endNode.y, result[2].x)

\* C7 as stated: in that case the path has exactly one intermediate point,
\* at (end.x, start.y).
C7_OneBend ==
  C7_Case =>
    /\ Len(result) = 3
    /\ result[2].x = endNode.x /\ result[2].y = startNode.y

\* C7 amended: in that case the first intermediate point is the virtual
\* waypoint at (end.x, start.y) or an existing waypoint within 15 of it on
\* both axes; when end.y is more than 20 from that point's y a second
\* point follows, the virtual waypoint at (first.x, end.y) or an existing
\* waypoint within 15 of it, which is the last element when it is end
\* itself; then end.  The path has one or two intermediate points.
C7_BendPolicy ==
  C7_Case =>
    /\ result[1] = startNode
    /\ Last(result) = endNode
    /\ \/ /\ result[2].id = "virtual-h-" \o startNode.id \o "-" \o endNode.id
          /\ result[2].x = endNode.x /\ result[2].y = startNode.y
       \/ ExistingWaypointNear(result[2], endNode.x, startNode.y)
    /\ IF Abs(endNode.y - result[2].y) > 20
       THEN /\ Len(result) >= 3
            /\ \/ /\ result[3].id = "virtual-v-" \o startNode.id \o "-" \o endNode.id
                  /\ result[3].x = result[2].x /\ result[3].y = endNode.y
                  /\ Len(result) = 4
               \/ /\ ExistingWaypointNear(result[3], result[2].x, endNode.y)
                  /\ Len(result) = IF result[3].id = endNode.id THEN 3 ELSE 4
       ELSE Len(result) = 3

\* the case with two virtual intermediate points
C7_Witness ==
  /\ C7_Case
  /\ pc = "returned"
  /\ Len(result) = 4
  /\ result[2].name = "Corridor"
  /\ result[3].name = "Corridor"

NoWaypoints == \A i \in 1..Len(allNodes) : allNodes[i].type # "waypoint"

C8_Case ==
  /\ Returned
  /\ startNode.connections = <<>> /\ endNode.connections = <<>>
  /\ BothDeltasLarge
  /\ NoWaypoints
  /\ ClearHorizontal(startNode.x, endNode.x, startNode.y)
  /\ ClearVertical(startNode.y, endNode.y, endNode.x)

\* C8: start and end without connections, both deltas above 20, no
\* waypoint in the rooms and no obstructing room: the path is start, a
\* virtual waypoint at (end.x, start.y), a virtual waypoint at
\* (end.x, end.y), end -- length 4.
C8_TwoLegSynthesis ==
  C8_Case =>
    result = << startNode,
                [id |-> "virtual-h-" \o startNode.id \o "-" \o endNode.id, name |-> "Corridor",
                 x |-> endNode.x, y |-> startNode.y, connections |-> <<>>, type |-> "waypoint"],
                [id |-> "virtual-v-" \o startNode.id \o "-" \o endNode.id, name |-> "Corridor",
                 x |-> endNode.x, y |-> endNode.y, connections |-> <<>>, type |-> "waypoint"],
                endNode >>

\* the scenario with a third room present that is in neither corridor
C8_Witness ==
  /\ C8_Case
  /\ pc = "returned"
  /\ Len(result) = 4
  /\ \E i \in 1..Len(allNodes) : Blocker(allNodes[i])

\* ---- reference definitions for the helpers
\* the perpendicular distance from (px, py) to the line through (x1, y1) and
\* (x2, y2) is |cross| / length; it is below radius when
\* cross^2 < radius^2 * length^2
WithinOfLine(x1, y1, x2, y2, px, py, radius) ==
  LET cross == (x2 - x1) * (py - y1) - (y2 - y1) * (px - x1)
      len2 == (x2 - x1) * (x2 - x1) + (y2 - y1) * (y2 - y1)
  IN  cross * cross < radius * radius * len2

\* C9: isPathObstructed(a, b, allNodes) is true exactly when a room other
\* than a and b that is not a waypoint lies at perpendicular distance below
\* 20 from the line through a and b.
C9_PerpendicularDistance ==
  (pc = "obstructed" /\ ~(startNode.x = endNode.x /\ startNode.y = endNode.y)) =>
    (crosses <=>
       \E i \in 1..Len(allNodes) :
         /\ Blocker(allNodes[i])
         /\ WithinOfLine(startNode.x, startNode.y, endNode.x, endNode.y,
                         allNodes[i].x, allNodes[i].y, 20))

IsExistingWaypoint(w) == \E i \in 1..Len(allNodes) : allNodes[i] = w /\ w.type = "waypoint"

Manhattan(p, q) == Abs(p.x - q.x) + Abs(p.y - q.y)

\* twice the two-leg sum through w against three times the direct distance
ExceedsBound(w) ==
  2 * (Manhattan(startNode, w) + Manhattan(w, endNode)) > 3 * Manhattan(startNode, endNode)

InsideBound(w) ==
  2 * (Manhattan(startNode, w) + Manhattan(w, endNode)) < 3 * Manhattan(startNode, endNode)

\* C10: findRouteThroughWaypoints returns [from, w, to] where an existing
\* waypoint w never has a two-leg Manhattan distance above 1.5 times the
\* direct one, and where, when no waypoint is within the bound, w is the
\* corner node at (to.x, from.y).
C10_DetourBound ==
  pc = "detour" =>
    /\ Len(result) = 3 /\ result[1] = startNode /\ result[3] = endNode
    /\ IsExistingWaypoint(result[2]) => ~ExceedsBound(result[2])
    /\ (\A i \in 1..Len(allNodes) :
          allNodes[i].type = "waypoint" => ~InsideBound(allNodes[i])) =>
         /\ result[2].id = "corner-" \o startNode.id \o "-" \o endNode.id
         /\ result[2].x = endNode.x /\ result[2].y = startNode.y
         /\ ~IsExistingWaypoint(result[2])

\* a waypoint within the bound was returned while another one, outside the
\* bound, was on offer
C10_Witness ==
  /\ pc = "detour"
  /\ IsExistingWaypoint(result[2])
  /\ InsideBound(result[2])
  /\ \E i \in 1..Len(allNodes) :
        allNodes[i].type = "waypoint" /\ ExceedsBound(allNodes[i])

\* ---- reference definitions for the audit
OffPath(room) == \A j \in 1..Len(result) : result[j].id # room.id

\* C11: pathCrossesRoom(path, allNodes) is true exactly when a room that is
\* not a waypoint and whose id is on no path element lies at perpendicular
\* distance below 20 from the line of some consecutive pair of the path; it
\* is false for a path of length 0 or 1.
C11_PerpendicularAudit ==
  pc = "audited" =>
    (crosses <=>
       \E i \in 1..(Len(result) - 1) : \E k \in 1..Len(allNodes) :
         /\ allNodes[k].type # "waypoint"
         /\ OffPath(allNodes[k])
         /\ WithinOfLine(result[i].x, result[i].y, result[i + 1].x, result[i + 1].y,
                         allNodes[k].x, allNodes[k].y, 20))

\* ---- reference definitions for the created nodes
\* a path element that is none of the caller's values: not start, not end,
\* not an element of allNodes
Synthesized(n) ==
  /\ n # startNode
  /\ n # endNode
  /\ \A k \in 1..Len(allNodes) : allNodes[k] # n

\* C12: every node of a returned path that was created during the call has
\* no connections and an id that is the id of no room of allNodes, nor
\* start.id, nor end.id.
C12_VirtualNodes ==
  Returned =>
    \A j \in 1..Len(result) :
      Synthesized(result[j]) =>
        /\ result[j].connections = <<>>
        /\ result[j].id # startNode.id
        /\ result[j].id # endNode.id
        /\ \A k \in 1..Len(allNodes) : allNodes[k].id # result[j].id

\* C13: in the rendered instructions, a path element of type waypoint that
\* is not the last element is never a "Go to" step; its step is a
\* "Continue <direction>" step -- for the waypoints of allRooms and for the
\* virtual waypoints the engine creates.
C13_WaypointsNotNamed ==
  Len(page.steps) > 0 =>
    \A i \in 2..(Len(page.path) - 1) :
      page.path[i].type = "waypoint" => page.steps[i].kind = "Continue"

\* ---- reference definitions for termination
\* following previous from id reaches Null within n steps
RECURSIVE ReachesNull(_, _, _)
ReachesNull(previous, id, n) ==
  IF id = Null THEN TRUE
  ELSE IF n = 0 THEN FALSE
  ELSE ReachesNull(previous, previous[id], n - 1)

Acyclic(previous) ==
  \A id \in DOMAIN previous : ReachesNull(previous, id, Cardinality(DOMAIN previous))

\* C14: every call of getShortestPath terminates.  An iteration of the
\* selection loop that does not stop removes exactly one id from unvisited,
\* the previous map is acyclic at every point, an iteration of the walk back
\* adds one room to the path and never more rooms than there are, and every
\* call reaches its return (and the audit that follows).
C14_Termination ==
  /\ [](Acyclic(frame.previous))
  /\ [](Len(frame.path) <= Len(frame.rooms))
  /\ [][(pc = "loop" /\ pc' = "loop") => Len(frame'.unvisited) = Len(frame.unvisited) - 1]_vars
  /\ <>(pc = "audited")

\* a call whose loop ran and whose walk back took several steps has returned
C14_Witness ==
  /\ pc = "audited"
  /\ SearchRan
  /\ Len(frame.unvisited) <= Len(frame.rooms) - 2
  /\ Len(frame.path) >= 3
  /\ result = frame.path

BothSelected == page.selectedStart # NoRoom /\ page.selectedDestination # NoRoom

\* C15: after any sequence of dropdown selections, map clicks and clears,
\* whenever a start and a destination are both selected the stored path is
\* getShortestPath(selectedStart, selectedDestination, allRooms) for the
\* selected pair.
C15_RouteFollowsSelection ==
  BothSelected =>
    page.path = getShortestPath(page.selectedStart, page.selectedDestination, allNodes)

\* a pair of distinct rooms is selected and a route with an intermediate
\* point is stored and narrated
C15_Witness ==
  /\ BothSelected
  /\ page.selectedStart.id # page.selectedDestination.id
  /\ Len(page.path) >= 3
  /\ Len(page.steps) = Len(page.path) + 1

\* C16: when start.connections or end.connections is empty no graph search
\* is made -- no step of the loop or of the walk back is taken and the
\* working set is never built -- and the value returned is exactly
\* createGridBasedPath(start, end, allRooms), also when the other endpoint
\* lists the one without connections.
C16_SearchPrecondition ==
  (Len(startNode.connections) = 0 \/ Len(endNode.connections) = 0) =>
    /\ pc \notin {"loop", "reconstruct"}
    /\ frame = emptyFrame
    /\ Returned => result = createGridBasedPath(startNode, endNode, allNodes)

\* start lists end, end lists nothing, and the call has returned
C16_Witness ==
  /\ pc = "returned"
  /\ Len(endNode.connections) = 0
  /\ InSeq(startNode.connections, endNode.id)
  /\ HasId(allNodes, endNode.id)
  /\ Len(result) >= 2

\* ---- reference definitions for the blocked horizontal leg
\* the call returned the fallback path
FellBack ==
  /\ Returned
  /\ ~SearchRan \/ Len(frame.path) = 0 \/ frame.path[1].id # startNode.id

\* |end.x - start.x| > 20, no waypoint of allNodes within 15 of
\* (end.x, start.y), and a room in the horizontal corridor
C17_Case ==
  /\ FellBack
  /\ Abs(endNode.x - startNode.x) > 20
  /\ \A i \in 1..Len(allNodes) :
       ~(allNodes[i].type = "waypoint"
          /\ Abs(allNodes[i].x - endNode.x) < 15 /\ Abs(allNodes[i].y - startNode.y) < 15)
  /\ ~ClearHorizontal(startNode.x, endNode.x, startNode.y)

\* index in allNodes of the waypoint nearest to start, the first of equally
\* near ones
IsNearestWaypoint(i) ==
  /\ allNodes[i].type = "waypoint"
  /\ \A j \in 1..Len(allNodes) :
       allNodes[j].type = "waypoint" =>
         \/ calculateDistance(startNode, allNodes[i]) < calculateDistance(startNode, allNodes[j])
         \/ /\ calculateDistance(startNode, allNodes[i]) = calculateDistance(startNode, allNodes[j])
            /\ i <= j

\* C17 as stated: in the blocked case the horizontal leg is the detour
\* selector's result from start to end without its first point, so the path
\* is that result.
C17_DelegatesToDetour ==
  C17_Case =>
    result = findRouteThroughWaypoints(startNode, endNode, WaypointsOf(allNodes), allNodes)

\* C17 amended: in the blocked case the horizontal leg is the waypoint of
\* allNodes nearest to start (Euclidean, the first of equally near ones),
\* or nothing when allNodes has no waypoint; the detour selector is not
\* asked.  The vertical leg and the destination follow from there.
C17_NearestWaypoint ==
  C17_Case =>
    /\ result[1] = startNode
    /\ NoWaypoints =>
         result = addDestination(endNode, verticalLeg(startNode, endNode, allNodes, <<startNode>>))
    /\ \A i \in 1..Len(allNodes) :
         IsNearestWaypoint(i) =>
           /\ result[2] = allNodes[i]
           /\ result = addDestination(endNode,
                         verticalLeg(startNode, endNode, allNodes, <<startNode, allNodes[i]>>))

\* a blocked horizontal corridor, and a waypoint away from the line to the
\* destination taken as the next point
C17_Witness ==
  /\ C17_Case
  /\ pc = "returned"
  /\ Len(result) >= 3
  /\ result[2].type = "waypoint"
  /\ result[2].id # startNode.id
  /\ result[2].y # startNode.y

\* C18: every path of the fallback is axis-aligned: two consecutive points
\* differ in at most one coordinate.
C18_AxisAligned ==
  FellBack =>
    \A i \in 1..(Len(result) - 1) :
      result[i].x = result[i + 1].x \/ result[i].y = result[i + 1].y

\* ---- reference definitions for the detour selector
TwoLegSum(w) == Manhattan(startNode, w) + Manhattan(w, endNode)

\* indices in allNodes of the waypoints within the bound whose two legs
\* isPathObstructed finds free
Candidates ==
  {i \in 1..Len(allNodes) :
     /\ allNodes[i].type = "waypoint"
     /\ InsideBound(allNodes[i])
     /\ ~isPathObstructed(startNode, allNodes[i], allNodes)
     /\ ~isPathObstructed(allNodes[i], endNode, allNodes)}

\* C19: among the waypoints within the 1.5 bound, findRouteThroughWaypoints
\* returns [from, w, to] for a candidate of smallest two-leg Manhattan sum
\* among those with both legs unobstructed; no unobstructed candidate of
\* strictly smaller sum is passed over, and a candidate is returned
\* whenever there is one.
C19_SelectionOrder ==
  (pc = "detour" /\ Candidates # {}) =>
    \E i \in Candidates :
      /\ result = <<startNode, allNodes[i], endNode>>
      /\ \A j \in Candidates : TwoLegSum(allNodes[j]) >= TwoLegSum(allNodes[i])

\* the waypoint returned stands later in allNodes than a candidate of
\* larger sum
C19_Witness ==
  /\ pc = "detour"
  /\ \E i \in Candidates : \E j \in Candidates :
       /\ result[2] = allNodes[i]
       /\ j < i
       /\ TwoLegSum(allNodes[j]) > TwoLegSum(allNodes[i])

\* C20: when no waypoint qualifies -- none within the bound, or each with an
\* obstructed leg -- findRouteThroughWaypoints returns exactly
\* [from, corner, to], corner a new waypoint at (to.x, from.y) without
\* connections, whether or not the corner's legs are obstructed; the result
\* always has three elements, from first and to last.
C20_CornerFallback ==
  pc = "detour" =>
    /\ Len(result) = 3
    /\ result[1] = startNode
    /\ result[3] = endNode
    /\ Candidates = {} =>
         result[2] = [id |-> "corner-" \o startNode.id \o "-" \o endNode.id, name |-> "Corner",
                      x |-> endNode.x, y |-> startNode.y,
                      connections |-> <<>>, type |-> "waypoint"]

\* every waypoint within the bound has an obstructed leg, and the corner
\* returned has an obstructed leg too
C20_Witness ==
  /\ pc = "detour"
  /\ Candidates = {}
  /\ \E i \in 1..Len(allNodes) : allNodes[i].type = "waypoint" /\ InsideBound(allNodes[i])
  /\ result[2].name = "Corner"
  /\ \/ isPathObstructed(startNode, result[2], allNodes)
     \/ isPathObstructed(result[2], endNode, allNodes)

\* ---- reference definitions for dangling connections
\* the connection ids of rooms that resolve to no room of rooms
Dangling(rooms) ==
  UNION {{rooms[i].connections[k] : k \in 1..Len(rooms[i].connections)} : i \in 1..Len(rooms)}
    \ {rooms[i].id : i \in 1..Len(rooms)}

\* rooms with the dangling ids taken out of every connections list
WithoutDangling(rooms) ==
  [i \in 1..Len(rooms) |->
     [rooms[i] EXCEPT !.connections =
        SelectSeq(rooms[i].connections, LAMBDA id : id \notin Dangling(rooms))]]

\* the distances the loop of lines 78-111 ends with on rooms
LoopDistances(rooms, start, end) ==
  searchLoop([rooms |-> rooms,
              distances |-> initialDistances(rooms, start),
              previous |-> initialPrevious(rooms),
              unvisited |-> initialUnvisited(rooms),
              currentId |-> Null,
              path |-> <<>>], end).distances

\* C21: a connection id that resolves to no node of the working set is
\* skipped during relaxation: no error is raised, the id gets no distance
\* and no previous entry and is nobody's previous node, it is not in the
\* returned path, and the distances the search ends with are those of the
\* same rooms with the id taken out of the connections lists.
C21_DanglingSkipped ==
  /\ pc # "threw"
  /\ SearchRan =>
       \A id \in Dangling(frame.rooms) :
         /\ id \notin DOMAIN frame.distances
         /\ id \notin DOMAIN frame.previous
         /\ \A n \in DOMAIN frame.previous : frame.previous[n] # id
         /\ \A j \in 1..Len(frame.path) : frame.path[j].id # id
         /\ Returned => \A j \in 1..Len(result) : result[j].id # id
  /\ (SearchRan /\ pc # "loop") =>
       frame.distances = LoopDistances(WithoutDangling(frame.rooms), startNode, endNode)

\* the search returned a path of two rooms or more after it visited a room
\* whose connections list holds a dangling id before one that resolves
C21_Witness ==
  /\ pc = "returned"
  /\ SearchRan
  /\ result = frame.path
  /\ Len(result) >= 2
  /\ \E i \in 1..Len(frame.rooms) :
       /\ ~InSeq(frame.unvisited, frame.rooms[i].id)
       /\ \E k \in 1..Len(frame.rooms[i].connections) :
            /\ frame.rooms[i].connections[k] \in Dangling(frame.rooms)
            /\ \E m \in (k + 1)..Len(frame.rooms[i].connections) :
                 frame.rooms[i].connections[m] \notin Dangling(frame.rooms)

\* the Euclidean distance between the positions of p and n is r
IsEuclidean(p, n, r) ==
  /\ r >= 0
  /\ r * r = (p.x - n.x) * (p.x - n.x) + (p.y - n.y) * (p.y - n.y)

\* C22: at every step of the search, every node n with a recorded previous
\* node p has dist[n] = dist[p] + the Euclidean distance from p to n, and p
\* lists n in its connections; no hop count or placeholder weight is used,
\* and dist[start] stays 0.
C22_EdgeWeights ==
  SearchRan =>
    /\ frame.distances[startNode.id] = 0
    /\ \A n \in DOMAIN frame.previous :
         frame.previous[n] # Null =>
           LET p == frame.rooms[FindById(frame.rooms, frame.previous[n])]
               room == frame.rooms[FindById(frame.rooms, n)]
           IN  /\ InSeq(p.connections, n)
               /\ \E r \in 0..frame.distances[n] :
                    /\ IsEuclidean(p, room, r)
                    /\ frame.distances[n] = frame.distances[p.id] + r

\* the search is under way and a node is two connections from start, its
\* previous node being reached over a connection itself
C22_Witness ==
  /\ pc = "loop"
  /\ \E n \in DOMAIN frame.previous :
       /\ frame.previous[n] # Null
       /\ frame.previous[frame.previous[n]] # Null
       /\ frame.distances[n] > frame.distances[frame.previous[n]]

\* the call returned the path the search reconstructed (line 131)
SearchSucceeded ==
  /\ Returned
  /\ SearchRan
  /\ Len(frame.path) > 0
  /\ frame.path[1].id = startNode.id

\* the rooms the search works on: allNodes plus start and end
WorkingSet == {allNodes[i] : i \in 1..Len(allNodes)} \cup {startNode, endNode}

\* C23: when the search succeeds, every element of the returned path is a
\* node of the working set, no id occurs twice in it, and each element lists
\* the id of the next one in its connections.
C23_SearchPathWellFormed ==
  SearchSucceeded =>
    /\ result = frame.path
    /\ \A i \in 1..Len(result) : result[i] \in WorkingSet
    /\ \A i \in 1..Len(result) : \A j \in 1..Len(result) :
         result[i].id = result[j].id => i = j
    /\ \A i \in 1..(Len(result) - 1) :
         \E k \in 1..Len(result[i].connections) : result[i].connections[k] = result[i + 1].id

\* the search returned a path of three rooms, the middle one listed by start
\* and start not listed by it
C23_Witness ==
  /\ SearchSucceeded
  /\ Len(result) = 3
  /\ \A k \in 1..Len(result[2].connections) : result[2].connections[k] # result[1].id

\* C24: the path getShortestPath returns has one element exactly when
\* start.id = end.id; for distinct ids it has two elements or more, from the
\* search and from the fallback alike.
C24_DegeneratePath ==
  Returned => (Len(result) = 1 <=> startNode.id = endNode.id)

\* the fallback was called with start and end of one id, among other rooms,
\* and returned that one room
C24_Witness ==
  /\ FellBack
  /\ startNode.id = endNode.id
  /\ Len(allNodes) >= 2
  /\ result = <<startNode>>

\* C25: no path getShortestPath returns holds two consecutive elements of
\* the same id, also when the vertical leg of the fallback calls
\* findRouteThroughWaypoints from a point that is an existing waypoint or
\* toward a destination that is a waypoint among the candidates.
C25_NoRepeatedStep ==
  Returned => \A i \in 1..(Len(result) - 1) : result[i].id # result[i + 1].id

\* C26: on the page, after any sequence of map clicks, dropdown selections
\* and clears, whenever no destination is selected the stored path is empty;
\* a map click made with start and destination both set leaves no route of
\* the previous selection stored.
C26_NoDestinationNoPath ==
  page.selectedDestination = NoRoom => page.path = <<>>

====
